---- MODULE Spec2Model ----
(***************************************************************************)
(* Model of src/app.py: the Streamlit dashboard that loads the weekly      *)
(* real-estate workbook (load_data), and on every script run filters the   *)
(* merged table by region and date range and draws one path per region.    *)
(*                                                                         *)
(* A DataFrame is a sequence of row records; the position in the merged    *)
(* table is the row's index label (pd.merge gives a fresh RangeIndex), and *)
(* df_sel / df_sel_sorted are sequences of those labels, as boolean        *)
(* indexing and sort_values keep the labels of the rows they select.       *)
(***************************************************************************)
EXTENDS Integers, Sequences, FiniteSets, TLC

\* ---------------------------------------------------------------- bounds
MaxRows == 2          \* data rows per sheet of a workbook
MaxDate == 2          \* distinct weekly dates 1..MaxDate

\* ------------------------------------------------------------ cell values
NaN == -1             \* an empty cell as read by pd.read_excel
BadLabel == 0         \* a period label pd.to_datetime cannot parse
Filled == 0           \* the value fillna writes into an empty cell
DefaultCount == 3     \* all_regions[:3]

Periods == 1..MaxDate
PeriodCells == Periods \cup {NaN, BadLabel}
Readings == {1}
ValueCells == Readings \cup {NaN}

\* Column headers of the region columns, in sorted() order.
RegionOrder == <<"A", "B">>
Regions == {RegionOrder[i] : i \in DOMAIN RegionOrder}
ColumnLists == {<<"A">>, <<"A", "B">>}

ColSet(cols) == {cols[i] : i \in DOMAIN cols}

\* ------------------------------------------------------------- workbooks
RowsOver(cols, pcells, vcells) == [p : pcells, v : [ColSet(cols) -> vcells]]

SheetsOver(pcells, vcells, maxRows) ==
    UNION {
        UNION { { [hasPeriodCol |-> TRUE, cols |-> cols, rows |-> rs] :
                    rs \in [1..n -> RowsOver(cols, pcells, vcells)] } :
                n \in 0..maxRows } :
        cols \in ColumnLists }

EmptySheet == [hasPeriodCol |-> TRUE, cols |-> <<"A">>, rows |-> <<>>]

Book(ex, hs, hr, s, r) ==
    [exists |-> ex, hasSale |-> hs, hasRent |-> hr, sale |-> s, rent |-> r]

\* Workbooks on which one of the steps of load_data raises before the merge.
FaultyBooks ==
    { Book(FALSE, TRUE, TRUE, EmptySheet, EmptySheet),
      Book(TRUE, FALSE, TRUE, EmptySheet, EmptySheet),
      Book(TRUE, TRUE, FALSE, EmptySheet, EmptySheet),
      Book(TRUE, TRUE, TRUE, [EmptySheet EXCEPT !.hasPeriodCol = FALSE], EmptySheet),
      Book(TRUE, TRUE, TRUE, EmptySheet, [EmptySheet EXCEPT !.hasPeriodCol = FALSE]) }

\* Every workbook with up to MaxRows rows per sheet (the load_data family).
LoadBooks ==
    { Book(TRUE, TRUE, TRUE, s, r) :
        s \in SheetsOver(PeriodCells, ValueCells, MaxRows),
        r \in SheetsOver(PeriodCells, ValueCells, MaxRows) }
    \cup FaultyBooks

\* ------------------------------------------------------------- load_data
\* dropna left out: the rows without a period stay.
dropna_keep(rows) == rows

\* sale.dropna(subset=['구분'], inplace=True)
dropna(rows) == SelectSeq(rows, LAMBDA r : r.p # NaN)

\* sale.fillna(0, inplace=True)
fillna(rows) ==
    [i \in DOMAIN rows |->
        [p |-> rows[i].p,
         v |-> [c \in DOMAIN rows[i].v |->
                    IF rows[i].v[c] = NaN THEN Filled ELSE rows[i].v[c]]]]

\* sale.melt(id_vars=['날짜'], var_name='지역', value_name=...): one row per
\* (column, sheet row), column by column.
melt(cols, rows) ==
    [k \in 1..(Len(cols) * Len(rows)) |->
        LET c == cols[((k - 1) \div Len(rows)) + 1]
            r == rows[((k - 1) % Len(rows)) + 1]
        IN  [date |-> r.p, region |-> c, val |-> r.v[c]]]

\* A merge on the date alone.
SameKey_date_only(a, b) == a.date = b.date

\* The join condition of pd.merge(..., on=['날짜', '지역']).
SameKey(a, b) == a.date = b.date /\ a.region = b.region

\* pd.merge(sale_melt, rent_melt, on=['날짜', '지역']): how='inner', the rows
\* in the order of the left keys, each left row paired with every match.
RECURSIVE merge(_, _)
merge(left, right) ==
    IF left = <<>> THEN <<>>
    ELSE LET a == Head(left)
             ms == SelectSeq(right, LAMBDA b : SameKey(a, b))
         IN  [k \in 1..Len(ms) |->
                 [date |-> a.date, region |-> a.region,
                  sale |-> a.val, rent |-> ms[k].val]]
             \o merge(Tail(left), right)

\* pd.read_excel raises when the file or either sheet is missing.
read_excel_ok(book) == book.exists /\ book.hasSale /\ book.hasRent

\* dropna(subset=['구분']) raises KeyError when a sheet has no '구분' column.
period_col_ok(book) == book.sale.hasPeriodCol /\ book.rent.hasPeriodCol

\* to_datetime with errors='coerce': nothing raises.
to_datetime_ok_coerce(rows) == TRUE

\* pd.to_datetime(df_merged['날짜']) raises on a label it cannot parse; date
\* cells (and NaN, which becomes NaT) pass through.
to_datetime_ok(rows) == \A i \in DOMAIN rows : rows[i].date # BadLabel

clean(sheet) == melt(sheet.cols, fillna(dropna(sheet.rows)))

None == [ok |-> FALSE, rows |-> <<>>]

\* The body of load_data (lines 22-57): the table, or None after st.error.
load_data_body(book) ==
    IF ~read_excel_ok(book) THEN None
    ELSE IF ~period_col_ok(book) THEN None
    ELSE LET df_merged == merge(clean(book.sale), clean(book.rent))
         IN  IF to_datetime_ok(df_merged)
             THEN [ok |-> TRUE, rows |-> df_merged]
             ELSE None

\* ------------------------------------------------------------ the session
\* "20250922_주간시계열.xlsx", the fixed path of line 64
excel_file_path == "20250922.xlsx"
NoFile == "none"                  \* uploaded_file is None
Uploads == {"upload1", "upload2"}  \* workbooks the user can drop on the uploader

VARIABLES
    disk,            \* the workbook stored at excel_file_path
    uploaded_file,   \* the sidebar file_uploader's value
    cache,           \* st.cache_data's entries for load_data, by argument
    w_regions,       \* the multiselect's widget state
    w_dates,         \* the date_input's widget state
    out              \* what the last script run computed and displayed

vars == <<disk, uploaded_file, cache, w_regions, w_dates, out>>

OneRowSheet(d) ==
    [hasPeriodCol |-> TRUE, cols |-> <<"A">>,
     rows |-> << [p |-> d, v |-> [c \in {"A"} |-> 1]] >>]

\* What each uploadable workbook holds.
UploadBook(u) ==
    IF u = "upload1"
    THEN Book(TRUE, TRUE, TRUE, OneRowSheet(1), OneRowSheet(1))
    ELSE Book(TRUE, TRUE, TRUE, OneRowSheet(MaxDate), OneRowSheet(MaxDate))

\* The file a load_data argument names.
FileAt(arg) == IF arg = excel_file_path THEN disk ELSE UploadBook(arg)

CacheKeys == {excel_file_path} \cup Uploads
EmptyCache == [k \in CacheKeys |-> [has |-> FALSE, value |-> None]]

\* @st.cache_data def load_data(uploaded_file): the body runs on a miss and
\* its return value (None included) is stored under the argument.
load_data(c, arg) ==
    IF c[arg].has
    THEN [cache |-> c, value |-> c[arg].value]
    ELSE LET v == load_data_body(FileAt(arg))
         IN  [cache |-> [c EXCEPT ![arg] = [has |-> TRUE, value |-> v]],
              value |-> v]

\* The argument of both calls: load_data(excel_file_path), lines 66 and 70.
LoadArg(up) == excel_file_path

\* ------------------------------------------------------------ one script run
\* if uploaded_file is not None
HasUpload(up) == up # NoFile

\* if df is not None and not df.empty
DfUsable(df) == df.ok /\ df.rows # <<>>

\* sorted(df['지역'].unique())
all_regions(rows) ==
    SelectSeq(RegionOrder, LAMBDA c : \E i \in DOMAIN rows : rows[i].region = c)

Min2(a, b) == IF a < b THEN a ELSE b

\* all_regions[:3]
default_regions(all) == SubSeq(all, 1, Min2(DefaultCount, Len(all)))

\* df['날짜'].min() / .max()
min_date(rows) ==
    CHOOSE d \in {rows[i].date : i \in DOMAIN rows} :
        \A i \in DOMAIN rows : d <= rows[i].date
max_date(rows) ==
    CHOOSE d \in {rows[i].date : i \in DOMAIN rows} :
        \A i \in DOMAIN rows : d >= rows[i].date

\* A guard that lets a lone start date through.
RangeComplete_nonempty(r) == Len(r) >= 1

\* if len(selected_date_range) == 2
RangeComplete(r) == Len(r) = 2

\* An end date that is not included.
Mask_open_end(row, start_date, end_date, selected_regions) ==
    /\ row.date >= start_date
    /\ row.date < end_date
    /\ row.region \in selected_regions

\* mask = (df["날짜"] >= start_date) & (df["날짜"] <= end_date) & df["지역"].isin(...)
Mask(row, start_date, end_date, selected_regions) ==
    /\ row.date >= start_date
    /\ row.date <= end_date
    /\ row.region \in selected_regions

\* df_sel = df[mask]: the labels of the rows kept, in the table's order.
RECURSIVE Select(_, _, _, _, _)
Select(rows, i, start_date, end_date, selected_regions) ==
    IF i > Len(rows) THEN <<>>
    ELSE (IF Mask(rows[i], start_date, end_date, selected_regions)
          THEN <<i>> ELSE <<>>)
         \o Select(rows, i + 1, start_date, end_date, selected_regions)

\* The chart branch taken whatever the filter kept.
NotEmpty_always(df_sel) == TRUE

\* if not df_sel.empty
NotEmpty(df_sel) == df_sel # <<>>

SeqSet(s) == {s[i] : i \in DOMAIN s}

Orderings(labels) ==
    { f \in [1..Len(labels) -> SeqSet(labels)] :
        \A i, j \in 1..Len(labels) : i # j => f[i] # f[j] }

\* The filtered rows left in the order of the table.
sort_values_as_is(rows, df_sel) == {df_sel}

\* df_sel.sort_values(by='날짜'): ascending by date with the default
\* kind='quicksort', which leaves the order of rows with equal dates open.
sort_values(rows, df_sel) ==
    { f \in Orderings(df_sel) :
        \A i \in 1..(Len(f) - 1) : rows[f[i]].date <= rows[f[i + 1]].date }

\* px.line(df_sel_sorted, ..., color="지역"): one trace per region, holding
\* that region's rows in the order of the frame.
px_line(rows, df_sel_sorted) ==
    [c \in Regions |-> SelectSeq(df_sel_sorted, LAMBDA l : rows[l].region = c)]

\* groupby('지역')['날짜'].idxmax(): per region, the label of the first row
\* of the group that holds the group's largest date.
idxmax(rows, group) ==
    LET top == CHOOSE d \in {rows[group[i]].date : i \in DOMAIN group} :
                   \A i \in DOMAIN group : d >= rows[group[i]].date
        first == CHOOSE i \in DOMAIN group :
                   /\ rows[group[i]].date = top
                   /\ \A j \in 1..(i - 1) : rows[group[j]].date # top
    IN  group[first]

\* last_points = df_sel_sorted.loc[df_sel_sorted.groupby('지역')['날짜'].idxmax()]
last_points(rows, df_sel_sorted) ==
    LET groups == px_line(rows, df_sel_sorted)
    IN  { idxmax(rows, groups[c]) : c \in {r \in Regions : groups[r] # <<>>} }

\* fig.add_annotation(x=row['매매지수'], y=row['전세지수'], text=row['지역'])
annotations(rows, points) ==
    { [x |-> rows[l].sale, y |-> rows[l].rent, text |-> rows[l].region] :
        l \in points }

Unset == [set |-> FALSE, val |-> {}]
UnsetDates == [set |-> FALSE, val |-> <<>>]

Blank ==
    [ran |-> FALSE, up |-> NoFile, df |-> None, shown |-> {},
     exception |-> FALSE, widgets |-> FALSE,
     all_regions |-> <<>>, min_date |-> 0, max_date |-> 0,
     selected_regions |-> {}, selected_date_range |-> <<>>,
     filtered |-> FALSE, df_sel |-> <<>>,
     charted |-> FALSE, df_sel_sorted |-> <<>>,
     traces |-> [c \in Regions |-> <<>>], last_points |-> {},
     annotations |-> {}]

\* The script from top to bottom (lines 59-161) with the uploader holding up
\* and the two sidebar widgets holding wr and wd.
Run(up, wr, wd) ==
    LET call == load_data(cache, LoadArg(up))
        df == call.value
        base == [Blank EXCEPT !.ran = TRUE, !.up = up, !.df = df,
                              !.shown = IF df.ok THEN {} ELSE {"error"}]
    IN  /\ cache' = call.cache
        /\ uploaded_file' = up
        /\ disk' = disk
        /\ IF ~HasUpload(up)
           THEN /\ out' = [base EXCEPT !.shown = @ \cup {"info_upload"}]
                /\ w_regions' = Unset
                /\ w_dates' = UnsetDates
           ELSE IF ~DfUsable(df)
           THEN /\ out' = base
                /\ w_regions' = Unset
                /\ w_dates' = UnsetDates
           ELSE IF ~df.ok \/ df.rows = <<>>
           THEN \* df['지역'] on None, or date_input on NaT bounds, raises
                /\ out' = [base EXCEPT !.exception = TRUE]
                /\ w_regions' = Unset
                /\ w_dates' = UnsetDates
           ELSE
             LET all == all_regions(df.rows)
                 regs == IF wr.set THEN wr.val ELSE SeqSet(default_regions(all))
                 lo == min_date(df.rows)
                 hi == max_date(df.rows)
                 range == IF wd.set THEN wd.val ELSE <<lo, hi>>
                 built == [base EXCEPT !.widgets = TRUE, !.all_regions = all,
                                       !.min_date = lo, !.max_date = hi,
                                       !.selected_regions = regs,
                                       !.selected_date_range = range]
             IN  /\ w_regions' = [set |-> TRUE, val |-> regs]
                 /\ w_dates' = [set |-> TRUE, val |-> range]
                 /\ IF ~RangeComplete(range)
                    THEN out' = [built EXCEPT !.shown = @ \cup {"info_range"}]
                    ELSE IF Len(range) # 2
                    THEN \* start_date, end_date = selected_date_range raises
                         out' = [built EXCEPT !.exception = TRUE]
                    ELSE
                      LET df_sel == Select(df.rows, 1, range[1], range[2], regs)
                          sel == [built EXCEPT !.filtered = TRUE, !.df_sel = df_sel]
                      IN  IF ~NotEmpty(df_sel)
                          THEN out' = [sel EXCEPT !.shown = @ \cup {"warning"}]
                          ELSE \E df_sel_sorted \in sort_values(df.rows, df_sel) :
                                 LET pts == last_points(df.rows, df_sel_sorted)
                                 IN  out' = [sel EXCEPT
                                       !.charted = TRUE,
                                       !.df_sel_sorted = df_sel_sorted,
                                       !.traces = px_line(df.rows, df_sel_sorted),
                                       !.last_points = pts,
                                       !.annotations = annotations(df.rows, pts),
                                       !.shown = @ \cup {"chart"}]

\* --------------------------------------------------------- user interactions
\* Any interaction that changes no input (or the first visit) reruns the script.
Rerun == Run(uploaded_file, w_regions, w_dates)

\* The user drops a workbook on the uploader.
Upload(u) == u # uploaded_file /\ Run(u, w_regions, w_dates)

\* The user removes the uploaded workbook.
RemoveUpload == uploaded_file # NoFile /\ Run(NoFile, w_regions, w_dates)

\* The user changes the multiselect (options=all_regions).
SelectRegions(S) ==
    /\ out.widgets
    /\ S # w_regions.val
    /\ Run(uploaded_file, [set |-> TRUE, val |-> S], w_dates)

\* What st.sidebar.date_input can return for a range: zero, one or two dates
\* between min_value and max_value, the start not after the end.
DateRanges(lo, hi) ==
    {<<>>} \cup { <<a>> : a \in lo..hi }
           \cup { p \in (lo..hi) \X (lo..hi) : p[1] <= p[2] }

\* The user changes the date range.
SelectDates(r) ==
    /\ out.widgets
    /\ r # w_dates.val
    /\ Run(uploaded_file, w_regions, [set |-> TRUE, val |-> r])

\* Workbooks of the interactive sessions: any sale sheet, and a rent sheet
\* with one row per period, so that only the sale sheet repeats a period.
SessionRentSheets ==
    { s \in SheetsOver(PeriodCells \ {NaN}, Readings, MaxRows) :
        \A i, j \in DOMAIN s.rows : i # j => s.rows[i].p # s.rows[j].p }

SessionBooks ==
    { Book(TRUE, TRUE, TRUE, s, r) :
        s \in SheetsOver(PeriodCells, ValueCells, MaxRows),
        r \in SessionRentSheets }
    \cup FaultyBooks

Start ==
    /\ uploaded_file = NoFile
    /\ cache = EmptyCache
    /\ w_regions = Unset
    /\ w_dates = UnsetDates
    /\ out = Blank

Init == disk \in SessionBooks /\ Start

Next ==
    \/ Rerun
    \/ \E u \in Uploads : Upload(u)
    \/ RemoveUpload
    \/ \E S \in SUBSET SeqSet(out.all_regions) : SelectRegions(S)
    \/ \E r \in DateRanges(out.min_date, out.max_date) : SelectDates(r)

Spec == Init /\ [][Next]_vars

\* load_data over every workbook of the family: the script's first runs.
InitLoad == disk \in LoadBooks /\ Start
NextLoad == Rerun
SpecLoad == InitLoad /\ [][NextLoad]_vars

\* ------------------------------------------------------------------ claims
Rows == out.df.rows
Start_date == out.selected_date_range[1]
End_date == out.selected_date_range[2]

\* The labels of the rows of the table inside the closed date range with a
\* selected region.
Matching ==
    { i \in DOMAIN Rows :
        /\ Start_date <= Rows[i].date
        /\ Rows[i].date <= End_date
        /\ Rows[i].region \in out.selected_regions }

Plotted == UNION { SeqSet(out.traces[c]) : c \in Regions }

RECURSIVE SumLen(_, _)
SumLen(f, S) ==
    IF S = {} THEN 0
    ELSE LET c == CHOOSE x \in S : TRUE
         IN  Len(f[c]) + SumLen(f, S \ {c})

\* C1: in every run that filters, df_sel holds exactly the rows whose date
\* lies in [start_date, end_date] and whose region is selected, each once,
\* and a chart plots exactly those rows, each once.
C1_FilterExact ==
    out.filtered =>
        /\ SeqSet(out.df_sel) = Matching
        /\ Len(out.df_sel) = Cardinality(Matching)
        /\ out.charted =>
              /\ Plotted = Matching
              /\ SumLen(out.traces, Regions) = Cardinality(Matching)

\* A chart that plots a row dated start_date and a row dated end_date and
\* leaves out one row for its date and another for its region.
C1_Witness ==
    /\ out.charted
    /\ \E i \in Matching : Rows[i].date = End_date
    /\ \E i \in Matching : Rows[i].date = Start_date
    /\ \E i \in DOMAIN Rows : Rows[i].region \notin out.selected_regions
    /\ \E i \in DOMAIN Rows :
          /\ Rows[i].region \in out.selected_regions
          /\ (Rows[i].date > End_date \/ Rows[i].date < Start_date)

PathEnd(c) == out.traces[c][Len(out.traces[c])]

\* C2: every region with a path has its label at the (sale, rent) position
\* of the last point of its path.
C2_LabelAtPathEnd ==
    out.charted =>
        \A c \in Regions :
            out.traces[c] # <<>> =>
                /\ \E a \in out.annotations : a.text = c
                /\ \A a \in out.annotations :
                      a.text = c =>
                          /\ a.x = Rows[PathEnd(c)].sale
                          /\ a.y = Rows[PathEnd(c)].rent

\* How often the key (p, c) occurs in a sheet once its rows without a period
\* are gone and it is in long format.
KeyCount(sheet, p, c) ==
    IF p = NaN \/ c \notin ColSet(sheet.cols) THEN 0
    ELSE Cardinality({ i \in DOMAIN sheet.rows : sheet.rows[i].p = p })

OutCount(p, c) ==
    Cardinality({ i \in DOMAIN Rows : Rows[i].date = p /\ Rows[i].region = c })

\* C3: a successful load holds, for every (date, region), as many rows as
\* the product of the key's counts in the two cleaned long tables: m*n when
\* it occurs in both, none when it occurs in one only.
C3_InnerJoin ==
    (out.ran /\ out.df.ok) =>
        \A p \in PeriodCells : \A c \in Regions :
            OutCount(p, c) = KeyCount(disk.sale, p, c) * KeyCount(disk.rent, p, c)

C3_Witness ==
    /\ out.ran /\ out.df.ok
    /\ \E p \in Periods : \E c \in Regions :
          /\ KeyCount(disk.sale, p, c) = 2
          /\ KeyCount(disk.rent, p, c) = 2
          /\ OutCount(p, c) = 4
    /\ \E p \in Periods : \E c \in Regions :
          /\ KeyCount(disk.sale, p, c) >= 1
          /\ KeyCount(disk.rent, p, c) = 0
          /\ OutCount(p, c) = 0

\* The rows of a sheet with period p and an empty cell in column c.
EmptyCells(sheet, p, c) ==
    IF p = NaN \/ c \notin ColSet(sheet.cols) THEN 0
    ELSE Cardinality({ i \in DOMAIN sheet.rows :
                          sheet.rows[i].p = p /\ sheet.rows[i].v[c] = NaN })

\* The rows of a cleaned long table with key (p, c) and reading 0.
ZeroCount(long, p, c) ==
    Cardinality({ k \in DOMAIN long :
                    long[k].date = p /\ long[k].region = c /\ long[k].val = Filled })

\* C4: a successful load holds no row for a row without a period and no
\* empty metric, and every empty cell of a row that stays is a 0: in the
\* sheet's cleaned long table the rows of a key that read 0 are those of its
\* empty cells, and in the output each of them is joined with every row of
\* the key in the other sheet.
C4_MissingCells ==
    (out.ran /\ out.df.ok) =>
        /\ \A i \in DOMAIN Rows :
              Rows[i].date # NaN /\ Rows[i].sale # NaN /\ Rows[i].rent # NaN
        /\ \A p \in PeriodCells : \A c \in Regions :
              /\ ZeroCount(clean(disk.sale), p, c) = EmptyCells(disk.sale, p, c)
              /\ ZeroCount(clean(disk.rent), p, c) = EmptyCells(disk.rent, p, c)
              /\ Cardinality({ i \in DOMAIN Rows :
                     Rows[i].date = p /\ Rows[i].region = c /\ Rows[i].sale = Filled })
                 = EmptyCells(disk.sale, p, c) * KeyCount(disk.rent, p, c)
              /\ Cardinality({ i \in DOMAIN Rows :
                     Rows[i].date = p /\ Rows[i].region = c /\ Rows[i].rent = Filled })
                 = KeyCount(disk.sale, p, c) * EmptyCells(disk.rent, p, c)

\* A load of sheets that both hold a row without a period, the sale sheet
\* with an empty cell in a row that stays and shows as 0 in the output.
C4_Witness ==
    /\ out.ran /\ out.df.ok
    /\ \E i \in DOMAIN disk.sale.rows : disk.sale.rows[i].p = NaN
    /\ \E i \in DOMAIN disk.rent.rows : disk.rent.rows[i].p = NaN
    /\ \E p \in Periods : \E c \in Regions :
          /\ EmptyCells(disk.sale, p, c) >= 1
          /\ \E i \in DOMAIN Rows :
                Rows[i].date = p /\ Rows[i].region = c /\ Rows[i].sale = Filled

Notices == {"error", "info_upload", "info_range", "warning"}

\* C5: every script run ends with a chart or a notice on the page.
C5_ChartOrNotice ==
    out.ran => (out.charted \/ out.shown \cap Notices # {})

\* C6: in a run with an uploaded workbook the table filtered and plotted is
\* the normalization of that workbook.
C6_TableOfUploadedFile ==
    (out.ran /\ HasUpload(out.up)) => out.df = load_data_body(UploadBook(out.up))

\* A step of load_data fails on the workbook.
LoadFails(book) ==
    \/ ~book.exists
    \/ ~book.hasSale
    \/ ~book.hasRent
    \/ ~book.sale.hasPeriodCol
    \/ ~book.rent.hasPeriodCol
    \/ \E i \in DOMAIN book.sale.rows : \E j \in DOMAIN book.rent.rows :
          /\ book.sale.rows[i].p = BadLabel
          /\ book.rent.rows[j].p = BadLabel
          /\ ColSet(book.sale.cols) \cap ColSet(book.rent.cols) # {}

\* C7: when a step of load_data fails, the run gets None, shows the error,
\* builds no widget and renders no chart.
C7_FailedLoad ==
    (out.ran /\ LoadFails(disk)) =>
        /\ out.df = None
        /\ cache[excel_file_path].value = None
        /\ "error" \in out.shown
        /\ ~out.widgets
        /\ ~out.filtered
        /\ ~out.charted
        /\ ~out.exception

\* A run with an uploaded workbook on a table whose period column holds a
\* label that cannot be parsed.
C7_Witness ==
    /\ out.ran /\ HasUpload(out.up)
    /\ read_excel_ok(disk) /\ period_col_ok(disk)
    /\ LoadFails(disk)
    /\ "error" \in out.shown

C9_PathsInDateOrder ==
    out.charted =>
        \A c \in Regions :
            \A i \in 1..(Len(out.traces[c]) - 1) :
                Rows[out.traces[c][i]].date <= Rows[out.traces[c][i + 1]].date

\* A path of two dates whose rows stand in the table latest first.
C9_Witness ==
    /\ out.charted
    /\ \E c \in Regions :
          \E i \in 1..(Len(out.traces[c]) - 1) :
              /\ Rows[out.traces[c][i]].date < Rows[out.traces[c][i + 1]].date
              /\ out.traces[c][i] > out.traces[c][i + 1]

\* C10: a run whose date range has fewer than two endpoints raises nothing,
\* filters nothing, renders no chart and shows the prompt; only runs with
\* two endpoints filter or chart.
C10_IncompleteRange ==
    /\ (out.widgets /\ Len(out.selected_date_range) # 2) =>
          /\ ~out.exception
          /\ ~out.filtered
          /\ ~out.charted
          /\ out.shown = {"info_range"}
    /\ (out.filtered \/ out.charted) => Len(out.selected_date_range) = 2

C10_Witness ==
    /\ out.widgets
    /\ Len(out.selected_date_range) = 1
    /\ "info_range" \in out.shown
====
